---------------------------- MODULE Spec2Model ----------------------------
(***************************************************************************)
(* A model of the space-filling-curve functions of lsst::sphgeom (curve.h) *)
(* and of the construction, dispatch and decoding interface of             *)
(* ConvexPolygon (ConvexPolygon.h).                                        *)
(*                                                                         *)
(* Unsigned machine words are modelled as the set of positions of their 1  *)
(* bits: a uint64_t is a subset of 0..63 and a uint32_t a subset of 0..31. *)
(* Bitwise AND and OR are intersection and union, a shift moves every      *)
(* position and drops the ones that leave the word, and addition and       *)
(* multiplication carry and wrap modulo 2^width.                           *)
(***************************************************************************)
EXTENDS Integers, Naturals, Sequences, FiniteSets, TLC

VARIABLES
    pc,       \* "call": the operation op is about to run; "done": it returned
    op,       \* the function the caller invokes
    x, y,     \* the 32-bit grid coordinates (for log2: x is the argument)
    z,        \* the 64-bit Morton index
    h,        \* the 64-bit Hilbert index
    m,        \* the order of the curve
    r,        \* the value log2 returns
    seen,     \* Hilbert indexes produced so far by the enumeration of a grid
    repeat,   \* TRUE once the enumeration produced an index a second time
    cell,     \* the number of grid cells the enumeration has visited
    self,     \* the receiver of the relate call: a region
    arg,      \* the argument of the relate call: a region
    answer,   \* what the argument's own relate overload computes
    stack,    \* the relate overloads entered and not yet returned from
    trace,    \* every relate overload entered since the call began
    result,   \* the Relationship the outermost relate call returned
    points,   \* the vertices handed to a ConvexPolygon constructor
    buffer,   \* the byte string handed to decode, or produced by encode
    polygon   \* the ConvexPolygon the last operation produced, or an error

curveVars  == <<x, y, z, h, m, r>>
scanVars   == <<seen, repeat, cell>>
relateVars == <<self, arg, answer, stack, trace, result>>
polyVars   == <<points, buffer, polygon>>
vars == <<pc, op, curveVars, scanVars, relateVars, polyVars>>

---------------------------------------------------------------------------
(* Bounds of the model.                                                    *)

\* Width, in bits, of the window of arbitrary bits placed in each 32-bit
\* input; the bits outside the window are all 0 or all 1.
PatBits == 3

---------------------------------------------------------------------------
(* Machine words.                                                          *)

Pow2(n) == 2 ^ n

\* The word whose value is the small natural number n.
Word(n) == {i \in 0..30 : (n \div Pow2(i)) % 2 = 1}

\* The value of a word that fits a machine int.
RECURSIVE Val(_)
Val(w) == IF w = {} THEN 0
          ELSE LET i == CHOOSE j \in w : TRUE IN Pow2(i) + Val(w \ {i})

\* A 64-bit constant from its bytes, most significant first (UINT64_C).
U64(bytes) ==
    UNION {{i + 8 * (Len(bytes) - k) : i \in Word(bytes[k])} : k \in 1..Len(bytes)}

And(a, b) == a \cap b
Or(a, b)  == a \cup b
Xor(a, b) == (a \ b) \cup (b \ a)

\* a << k and a >> k on a word of the given width.
Shl(a, k, width) == {i + k : i \in a} \cap (0..(width - 1))
Shr(a, k)        == {i - k : i \in {j \in a : j >= k}}

\* static_cast<uint32_t>
U32(a) == a \cap (0..31)

\* a + b modulo 2^width: add without carries, then add the carries.
RECURSIVE Add(_, _, _)
Add(a, b, width) ==
    IF b = {} THEN a ELSE Add(Xor(a, b), Shl(And(a, b), 1, width), width)

\* a - b modulo 2^width (two's complement).
Sub(a, b, width) ==
    Add(a, Add((0..(width - 1)) \ b, {0}, width), width)

\* a * b modulo 2^width: the sum of a << i over the 1 bits i of b.
RECURSIVE Mul(_, _, _)
Mul(a, b, width) ==
    IF b = {} THEN {}
    ELSE LET i == CHOOSE j \in b : TRUE
         IN  Add(Shl(a, i, width), Mul(a, b \ {i}, width), width)

\* The index of the most significant 1 bit of a non-zero word.
Msb(w) == CHOOSE k \in w : \A j \in w : j <= k

---------------------------------------------------------------------------
(* log2                                                                    *)

PERFECT_HASH_TABLE_64 ==
  <<
     0,  1,  2,  7,  3, 13,  8, 19,  4, 25, 14, 28,  9, 34, 20, 40,
     5, 17, 26, 38, 15, 46, 29, 48, 10, 31, 35, 54, 21, 50, 41, 57,
    63,  6, 12, 18, 24, 27, 33, 39, 16, 37, 45, 47, 30, 53, 49, 56,
    62, 11, 23, 32, 36, 44, 52, 55, 61, 22, 43, 51, 60, 42, 59, 58
  >>

DE_BRUIJN_SEQUENCE_64 == U64(<<\h02, \h18, \ha3, \h92, \hcd, \h3d, \h5d, \hbf>>)

\* x |= (x >> 1); ... ; x |= (x >> 32): every bit below the MSB is set.
Saturate64(xx) ==
    LET x1 == Or(xx, Shr(xx, 1))
        x2 == Or(x1, Shr(x1, 2))
        x3 == Or(x2, Shr(x2, 4))
        x4 == Or(x3, Shr(x3, 8))
        x5 == Or(x4, Shr(x4, 16))
    IN  Or(x5, Shr(x5, 32))

\* A slip: the step x = x - (x >> 1), which isolates the MSB, is left out.
log2_64_NoIsolate(xx) ==
    PERFECT_HASH_TABLE_64[
        Val(Shr(Mul(DE_BRUIJN_SEQUENCE_64, Saturate64(xx), 64), 58)) + 1]

log2_64(xx) ==
    LET s == Saturate64(xx)
        p == Sub(s, Shr(s, 1), 64)
    IN  PERFECT_HASH_TABLE_64[Val(Shr(Mul(DE_BRUIJN_SEQUENCE_64, p, 64), 58)) + 1]

PERFECT_HASH_TABLE_32 ==
  <<
     0,  9,  1, 10, 13, 21,  2, 29, 11, 14, 16, 18, 22, 25,  3, 30,
     8, 12, 20, 28, 15, 17, 24,  7, 19, 27, 23,  6, 26,  5,  4, 31
  >>

DE_BRUIJN_SEQUENCE_32 == U64(<<\h07, \hc4, \hac, \hdd>>)

Saturate32(xx) ==
    LET x1 == Or(xx, Shr(xx, 1))
        x2 == Or(x1, Shr(x1, 2))
        x3 == Or(x2, Shr(x2, 4))
        x4 == Or(x3, Shr(x3, 8))
    IN  Or(x4, Shr(x4, 16))

log2_32(xx) ==
    PERFECT_HASH_TABLE_32[
        Val(Shr(Mul(DE_BRUIJN_SEQUENCE_32, Saturate32(xx), 32), 27)) + 1]

---------------------------------------------------------------------------
(* mortonIndex and mortonIndexInverse (the portable implementations)       *)

MASK_16 == U64(<<\h00, \h00, \hff, \hff, \h00, \h00, \hff, \hff>>)
MASK_8  == U64(<<\h00, \hff, \h00, \hff, \h00, \hff, \h00, \hff>>)
MASK_4  == U64(<<\h0f, \h0f, \h0f, \h0f, \h0f, \h0f, \h0f, \h0f>>)
MASK_2  == U64(<<\h33, \h33, \h33, \h33, \h33, \h33, \h33, \h33>>)
MASK_1  == U64(<<\h55, \h55, \h55, \h55, \h55, \h55, \h55, \h55>>)

\* b = (b | (b << 16)) & 0x0000ffff0000ffff; ... ; b = (b | (b << 1)) & 0x55..55
Spread(b) ==
    LET b1 == And(Or(b, Shl(b, 16, 64)), MASK_16)
        b2 == And(Or(b1, Shl(b1, 8, 64)), MASK_8)
        b3 == And(Or(b2, Shl(b2, 4, 64)), MASK_4)
        b4 == And(Or(b3, Shl(b3, 2, 64)), MASK_2)
    IN  And(Or(b4, Shl(b4, 1, 64)), MASK_1)

\* A slip: the two coordinates change places, return b | (a << 1).
mortonIndexSwapped(xx, yy) == Or(Spread(yy), Shl(Spread(xx), 1, 64))

mortonIndex(xx, yy) ==
    LET b == Spread(yy)
        a == Spread(xx)
    IN  Or(a, Shl(b, 1, 64))

\* x = (x | (x >> 1)) & 0x33..33; ... ; x = (x | (x >> 8)) & 0x0000ffff0000ffff
Squeeze(x0) ==
    LET x1 == And(Or(x0, Shr(x0, 1)), MASK_2)
        x2 == And(Or(x1, Shr(x1, 2)), MASK_4)
        x3 == And(Or(x2, Shr(x2, 4)), MASK_8)
    IN  And(Or(x3, Shr(x3, 8)), MASK_16)

\* A slip: the last fold, x | (x >> 16), is left out.
mortonIndexInverseNoFold(zz) ==
    <<U32(Squeeze(And(zz, MASK_1))), U32(Squeeze(And(Shr(zz, 1), MASK_1)))>>

mortonIndexInverse(zz) ==
    LET xs == Squeeze(And(zz, MASK_1))
        ys == Squeeze(And(Shr(zz, 1), MASK_1))
    IN  <<U32(Or(xs, Shr(xs, 16))), U32(Or(ys, Shr(ys, 16)))>>

---------------------------------------------------------------------------
(* mortonIndex and mortonIndexInverse (the SSE2 implementations)           *)
(* An __m128i is the pair <<lane 0, lane 1>> of its 64-bit lanes; its      *)
(* 32-bit element k is the low (k even) or high (k odd) half of lane k/2.  *)

Elem32(a, k) ==
    LET lane == a[(k \div 2) + 1]
    IN  IF k % 2 = 0 THEN U32(lane) ELSE Shr(lane, 32)

mm_setzero_si128 == <<{}, {}>>

\* _mm_set_epi64x(e1, e0): lane 0 is e0, lane 1 is e1.
mm_set_epi64x(e1, e0) == <<e0, e1>>

\* A slip: the mask is broadcast as one 64-bit value per lane, which leaves
\* the high half of each lane 0 (_mm_set1_epi64x of the 32-bit mask).
mm_set1_epi64x(a) == <<U32(a), U32(a)>>

\* _mm_set1_epi32(a): each of the four 32-bit elements is a.
mm_set1_epi32(a) ==
    LET lane == Or(U32(a), Shl(U32(a), 32, 64))
    IN  <<lane, lane>>

mm_and_si128(a, b) == <<And(a[1], b[1]), And(a[2], b[2])>>
mm_or_si128(a, b)  == <<Or(a[1], b[1]), Or(a[2], b[2])>>

\* Each 64-bit lane is shifted on its own, zeros shifted in.
mm_slli_epi64(a, k) == <<Shl(a[1], k, 64), Shl(a[2], k, 64)>>
mm_srli_epi64(a, k) == <<Shr(a[1], k), Shr(a[2], k)>>

\* _mm_unpackhi_epi64(a, b): the high lanes of a and of b.
mm_unpackhi_epi64(a, b) == <<a[2], b[2]>>

\* _mm_cvtsi128_si64(a): the low lane.
mm_cvtsi128_si64(a) == a[1]

\* _mm_shuffle_epi32(a, imm8): element k of the result is the element of a
\* selected by bits 2k, 2k+1 of imm8.
mm_shuffle_epi32(a, imm8) ==
    LET e(k) == Elem32(a, (imm8 \div Pow2(2 * k)) % 4)
    IN  <<Or(e(0), Shl(e(1), 32, 64)), Or(e(2), Shl(e(3), 32, 64))>>

SIMD_MASK_16 == U64(<<\h00, \h00, \hff, \hff>>)
SIMD_MASK_8  == U64(<<\h00, \hff, \h00, \hff>>)
SIMD_MASK_4  == U64(<<\h0f, \h0f, \h0f, \h0f>>)
SIMD_MASK_2  == U64(<<\h33, \h33, \h33, \h33>>)
SIMD_MASK_1  == U64(<<\h55, \h55, \h55, \h55>>)

\* uint64_t mortonIndex(__m128i xy)
mortonIndex_m128i(xy) ==
    LET xy1 == mm_and_si128(mm_or_si128(xy, mm_slli_epi64(xy, 16)),
                            mm_set1_epi32(SIMD_MASK_16))
        xy2 == mm_and_si128(mm_or_si128(xy1, mm_slli_epi64(xy1, 8)),
                            mm_set1_epi32(SIMD_MASK_8))
        xy3 == mm_and_si128(mm_or_si128(xy2, mm_slli_epi64(xy2, 4)),
                            mm_set1_epi32(SIMD_MASK_4))
        xy4 == mm_and_si128(mm_or_si128(xy3, mm_slli_epi64(xy3, 2)),
                            mm_set1_epi32(SIMD_MASK_2))
        xy5 == mm_and_si128(mm_or_si128(xy4, mm_slli_epi64(xy4, 1)),
                            mm_set1_epi32(SIMD_MASK_1))
        yv  == mm_unpackhi_epi64(xy5, mm_setzero_si128)
        rv  == mm_or_si128(xy5, mm_slli_epi64(yv, 1))
    IN  mm_cvtsi128_si64(rv)

\* uint64_t mortonIndex(uint32_t x, uint32_t y), SSE2 build: the casts to
\* int64_t extend the 32-bit arguments with zeros.
mortonIndex_SIMD(xx, yy) == mortonIndex_m128i(mm_set_epi64x(U32(yy), U32(xx)))

mortonIndexInverseSimd(zz) ==
    LET xy0 == mm_set_epi64x(Shr(zz, 1), zz)
        xy1 == mm_and_si128(xy0, mm_set1_epi32(SIMD_MASK_1))
        xy2 == mm_and_si128(mm_or_si128(xy1, mm_srli_epi64(xy1, 1)),
                            mm_set1_epi32(SIMD_MASK_2))
        xy3 == mm_and_si128(mm_or_si128(xy2, mm_srli_epi64(xy2, 2)),
                            mm_set1_epi32(SIMD_MASK_4))
        xy4 == mm_and_si128(mm_or_si128(xy3, mm_srli_epi64(xy3, 4)),
                            mm_set1_epi32(SIMD_MASK_8))
        xy5 == mm_and_si128(mm_or_si128(xy4, mm_srli_epi64(xy4, 8)),
                            mm_set1_epi32(SIMD_MASK_16))
    IN  mm_or_si128(xy5, mm_srli_epi64(xy5, 16))

\* std::tuple<uint32_t, uint32_t> mortonIndexInverse(uint64_t z), SSE2 build
mortonIndexInverse_SIMD(zz) ==
    LET xy == mortonIndexInverseSimd(zz)
        rr == mm_cvtsi128_si64(mm_shuffle_epi32(xy, 8))
    IN  <<U32(And(rr, 0..31)), U32(Shr(rr, 32))>>

---------------------------------------------------------------------------
(* mortonToHilbert and hilbertToMorton                                     *)

\* The entries of the lookup tables are uint8_t.
Byte(n) == {i \in 0..7 : (n \div Pow2(i)) % 2 = 1}

LOW_6 == Byte(\h3f)
TOP_2 == Byte(\hc0)

HILBERT_LUT_3 ==
  <<
    \h40, \hc3, \h01, \h02, \h04, \h45, \h87, \h46,
    \h8e, \h8d, \h4f, \hcc, \h08, \h49, \h8b, \h4a,
    \hfa, \h3b, \hf9, \hb8, \h7c, \hff, \h3d, \h3e,
    \hf6, \h37, \hf5, \hb4, \hb2, \hb1, \h73, \hf0,
    \h10, \h51, \h93, \h52, \hde, \h1f, \hdd, \h9c,
    \h54, \hd7, \h15, \h16, \h58, \hdb, \h19, \h1a,
    \h20, \h61, \ha3, \h62, \hee, \h2f, \hed, \hac,
    \h64, \he7, \h25, \h26, \h68, \heb, \h29, \h2a,
    \h00, \h41, \h83, \h42, \hce, \h0f, \hcd, \h8c,
    \h44, \hc7, \h05, \h06, \h48, \hcb, \h09, \h0a,
    \h50, \hd3, \h11, \h12, \h14, \h55, \h97, \h56,
    \h9e, \h9d, \h5f, \hdc, \h18, \h59, \h9b, \h5a,
    \hba, \hb9, \h7b, \hf8, \hb6, \hb5, \h77, \hf4,
    \h3c, \h7d, \hbf, \h7e, \hf2, \h33, \hf1, \hb0,
    \h60, \he3, \h21, \h22, \h24, \h65, \ha7, \h66,
    \hae, \had, \h6f, \hec, \h28, \h69, \hab, \h6a,
    \haa, \ha9, \h6b, \he8, \ha6, \ha5, \h67, \he4,
    \h2c, \h6d, \haf, \h6e, \he2, \h23, \he1, \ha0,
    \h9a, \h99, \h5b, \hd8, \h96, \h95, \h57, \hd4,
    \h1c, \h5d, \h9f, \h5e, \hd2, \h13, \hd1, \h90,
    \h70, \hf3, \h31, \h32, \h34, \h75, \hb7, \h76,
    \hbe, \hbd, \h7f, \hfc, \h38, \h79, \hbb, \h7a,
    \hca, \h0b, \hc9, \h88, \h4c, \hcf, \h0d, \h0e,
    \hc6, \h07, \hc5, \h84, \h82, \h81, \h43, \hc0,
    \hea, \h2b, \he9, \ha8, \h6c, \hef, \h2d, \h2e,
    \he6, \h27, \he5, \ha4, \ha2, \ha1, \h63, \he0,
    \h30, \h71, \hb3, \h72, \hfe, \h3f, \hfd, \hbc,
    \h74, \hf7, \h35, \h36, \h78, \hfb, \h39, \h3a,
    \hda, \h1b, \hd9, \h98, \h5c, \hdf, \h1d, \h1e,
    \hd6, \h17, \hd5, \h94, \h92, \h91, \h53, \hd0,
    \h8a, \h89, \h4b, \hc8, \h86, \h85, \h47, \hc4,
    \h0c, \h4d, \h8f, \h4e, \hc2, \h03, \hc1, \h80
  >>

\* for (m = 2 * m; m >= 6;) { m -= 6; j = LUT[i | ((z >> m) & 0x3f)];
\*                            h = (h << 6) | (j & 0x3f); i = j & 0xc0; }
\* started with h and i and m bits of z left; yields h, i and m at loop exit.
RECURSIVE mortonToHilbertLoop(_, _, _, _)
mortonToHilbertLoop(zz, hh, i, mm) ==
    IF mm >= 6
    THEN LET m1 == mm - 6
             j  == Byte(HILBERT_LUT_3[Val(Or(i, And(Shr(zz, m1), LOW_6))) + 1])
         IN  mortonToHilbertLoop(zz, Or(Shl(hh, 6, 64), And(j, LOW_6)),
                                 And(j, TOP_2), m1)
    ELSE [h |-> hh, i |-> i, m |-> mm]

\* A slip: the partial group is looked up at z & 0x3f, without the shift
\* that moves its bits to the top of the 6-bit group.
mortonToHilbertNoShift(zz, mm) ==
    LET s == mortonToHilbertLoop(zz, {}, {}, 2 * mm)
    IN  IF s.m # 0
        THEN LET rr == 6 - s.m
                 j  == Byte(HILBERT_LUT_3[Val(Or(s.i, And(zz, LOW_6))) + 1])
             IN  Or(Shl(s.h, s.m, 64), Shr(And(j, LOW_6), rr))
        ELSE s.h

\* A slip: the partial group keeps j whole, so the two state bits of the
\* table entry are not masked off before the shift.
mortonToHilbertNoMask(zz, mm) ==
    LET s == mortonToHilbertLoop(zz, {}, {}, 2 * mm)
    IN  IF s.m # 0
        THEN LET rr == 6 - s.m
                 j  == Byte(HILBERT_LUT_3[Val(Or(s.i, And(Shl(zz, rr, 64), LOW_6))) + 1])
             IN  Or(Shl(s.h, s.m, 64), Shr(j, rr))
        ELSE s.h

\* A slip: a partial group of 4 bits is treated like one of 2 bits, so that
\* only its low bit pair goes through the table.
mortonToHilbertShortTail(zz, mm) ==
    LET s == mortonToHilbertLoop(zz, {}, {}, 2 * mm)
    IN  IF s.m # 0
        THEN LET j == Byte(HILBERT_LUT_3[Val(Or(s.i, And(Shl(zz, 4, 64), LOW_6))) + 1])
             IN  Or(Shl(s.h, s.m, 64), Shr(And(j, LOW_6), 4))
        ELSE s.h

mortonToHilbert(zz, mm) ==
    LET s == mortonToHilbertLoop(zz, {}, {}, 2 * mm)
    IN  IF s.m # 0
        THEN \* m = 2 or 4
             LET rr == 6 - s.m
                 j  == Byte(HILBERT_LUT_3[Val(Or(s.i, And(Shl(zz, rr, 64), LOW_6))) + 1])
             IN  Or(Shl(s.h, s.m, 64), Shr(And(j, LOW_6), rr))
        ELSE s.h

HILBERT_INVERSE_LUT_3 ==
  <<
    \h40, \h02, \h03, \hc1, \h04, \h45, \h47, \h86,
    \h0c, \h4d, \h4f, \h8e, \hcb, \h89, \h88, \h4a,
    \h20, \h61, \h63, \ha2, \h68, \h2a, \h2b, \he9,
    \h6c, \h2e, \h2f, \hed, \ha7, \he6, \he4, \h25,
    \h30, \h71, \h73, \hb2, \h78, \h3a, \h3b, \hf9,
    \h7c, \h3e, \h3f, \hfd, \hb7, \hf6, \hf4, \h35,
    \hdf, \h9d, \h9c, \h5e, \h9b, \hda, \hd8, \h19,
    \h93, \hd2, \hd0, \h11, \h54, \h16, \h17, \hd5,
    \h00, \h41, \h43, \h82, \h48, \h0a, \h0b, \hc9,
    \h4c, \h0e, \h0f, \hcd, \h87, \hc6, \hc4, \h05,
    \h50, \h12, \h13, \hd1, \h14, \h55, \h57, \h96,
    \h1c, \h5d, \h5f, \h9e, \hdb, \h99, \h98, \h5a,
    \h70, \h32, \h33, \hf1, \h34, \h75, \h77, \hb6,
    \h3c, \h7d, \h7f, \hbe, \hfb, \hb9, \hb8, \h7a,
    \haf, \hee, \hec, \h2d, \he7, \ha5, \ha4, \h66,
    \he3, \ha1, \ha0, \h62, \h28, \h69, \h6b, \haa,
    \hff, \hbd, \hbc, \h7e, \hbb, \hfa, \hf8, \h39,
    \hb3, \hf2, \hf0, \h31, \h74, \h36, \h37, \hf5,
    \h9f, \hde, \hdc, \h1d, \hd7, \h95, \h94, \h56,
    \hd3, \h91, \h90, \h52, \h18, \h59, \h5b, \h9a,
    \h8f, \hce, \hcc, \h0d, \hc7, \h85, \h84, \h46,
    \hc3, \h81, \h80, \h42, \h08, \h49, \h4b, \h8a,
    \h60, \h22, \h23, \he1, \h24, \h65, \h67, \ha6,
    \h2c, \h6d, \h6f, \hae, \heb, \ha9, \ha8, \h6a,
    \hbf, \hfe, \hfc, \h3d, \hf7, \hb5, \hb4, \h76,
    \hf3, \hb1, \hb0, \h72, \h38, \h79, \h7b, \hba,
    \hef, \had, \hac, \h6e, \hab, \hea, \he8, \h29,
    \ha3, \he2, \he0, \h21, \h64, \h26, \h27, \he5,
    \hcf, \h8d, \h8c, \h4e, \h8b, \hca, \hc8, \h09,
    \h83, \hc2, \hc0, \h01, \h44, \h06, \h07, \hc5,
    \h10, \h51, \h53, \h92, \h58, \h1a, \h1b, \hd9,
    \h5c, \h1e, \h1f, \hdd, \h97, \hd6, \hd4, \h15
  >>

RECURSIVE hilbertToMortonLoop(_, _, _, _)
hilbertToMortonLoop(hh, zz, i, mm) ==
    IF mm >= 6
    THEN LET m1 == mm - 6
             j  == Byte(HILBERT_INVERSE_LUT_3[Val(Or(i, And(Shr(hh, m1), LOW_6))) + 1])
         IN  hilbertToMortonLoop(hh, Or(Shl(zz, 6, 64), And(j, LOW_6)),
                                 And(j, TOP_2), m1)
    ELSE [z |-> zz, i |-> i, m |-> mm]

\* A slip: the partial group is read from the table of the forward transform.
hilbertToMortonWrongTable(hh, mm) ==
    LET s == hilbertToMortonLoop(hh, {}, {}, 2 * mm)
    IN  IF s.m # 0
        THEN LET rr == 6 - s.m
                 j  == Byte(HILBERT_LUT_3[Val(Or(s.i, And(Shl(hh, rr, 64), LOW_6))) + 1])
             IN  Or(Shl(s.z, s.m, 64), Shr(And(j, LOW_6), rr))
        ELSE s.z

\* A slip: the partial group is looked up without the transducer state i.
hilbertToMortonNoState(hh, mm) ==
    LET s == hilbertToMortonLoop(hh, {}, {}, 2 * mm)
    IN  IF s.m # 0
        THEN LET rr == 6 - s.m
                 j  == Byte(HILBERT_INVERSE_LUT_3[Val(And(Shl(hh, rr, 64), LOW_6)) + 1])
             IN  Or(Shl(s.z, s.m, 64), Shr(And(j, LOW_6), rr))
        ELSE s.z

hilbertToMorton(hh, mm) ==
    LET s == hilbertToMortonLoop(hh, {}, {}, 2 * mm)
    IN  IF s.m # 0
        THEN \* m = 2 or 4
             LET rr == 6 - s.m
                 j  == Byte(HILBERT_INVERSE_LUT_3[Val(Or(s.i, And(Shl(hh, rr, 64), LOW_6))) + 1])
             IN  Or(Shl(s.z, s.m, 64), Shr(And(j, LOW_6), rr))
        ELSE s.z

hilbertIndex(xx, yy, mm) == mortonToHilbert(mortonIndex(xx, yy), mm)

hilbertIndexInverse(hh, mm) == mortonIndexInverse(hilbertToMorton(hh, mm))

(* ---- the transducer that takes one bit pair at a time ---- *)

\* 16 entries of 4 bits: entry i is bits 4i..4i+3.
HILBERT_LUT_1 == U64(<<\h8d, \h3e, \hc7, \h9a, \h6b, \h50, \h21, \hf4>>)

LOW_2   == Byte(\h03)
STATE_2 == Byte(\h0c)

\* for (m = 2 * m; m != 0;) { m -= 2; i = (i & 0xc) | ((z >> m) & 3);
\*                            i = HILBERT_LUT_1 >> (i * 4);
\*                            h = (h << 2) | (i & 3); }
\* started with h and i and m bits of z left; yields h at loop exit.
RECURSIVE hilbertIndexLoop(_, _, _, _)
hilbertIndexLoop(zz, hh, i, mm) ==
    IF mm # 0
    THEN LET m1 == mm - 2
             i1 == Or(And(i, STATE_2), And(Shr(zz, m1), LOW_2))
             i2 == Shr(HILBERT_LUT_1, Val(i1) * 4)
         IN  hilbertIndexLoop(zz, Or(Shl(hh, 2, 64), And(i2, LOW_2)), i2, m1)
    ELSE hh

\* The loop of the one-pair-at-a-time hilbertIndex, on z = mortonIndex(x, y).
mortonToHilbert_1(zz, mm) == hilbertIndexLoop(zz, {}, {}, 2 * mm)

---------------------------------------------------------------------------
(* The callers of the curve functions.  A behaviour is one call: the       *)
(* initial state holds the function to call and its arguments, the action  *)
(* runs the function and stores what it returns.                           *)

\* A word of the given width: nbits arbitrary bits (those of pat) from bit s
\* upwards, every other bit equal to f.
Window(width, nbits, pat, s, f) ==
    LET inside == s..(s + nbits - 1)
    IN  (Shl(Word(pat), s, width) \cap inside)
            \cup (IF f = 1 THEN (0..(width - 1)) \ inside ELSE {})

\* A base-4 number of mm digits: nd arbitrary digits (those of pat) from
\* digit s upwards, the digits above them equal to d, the ones below equal
\* to d, or to 3 when ones = 1.
DigitWindow(mm, nd, pat, s, d, ones) ==
    LET inside == (2 * s)..(2 * (s + nd) - 1)
        fill   == {i \in 0..(2 * mm - 1) :
                     IF i < 2 * s /\ ones = 1 THEN TRUE ELSE (i % 2) \in Word(d)}
    IN  ((Shl(Word(pat), 2 * s, 64) \cap inside) \cup (fill \ inside))
            \cap (0..(2 * mm - 1))

Patterns(nbits) == 0..(Pow2(nbits) - 1)

\* The orders the curve functions accept: x and y are 32 bits wide.
Orders == 0..32

CurveIdle  == x = {} /\ y = {} /\ z = {} /\ h = {} /\ m = 0 /\ r = 0
ScanIdle   == seen = {} /\ repeat = FALSE /\ cell = 0
RelateIdle == self = "none" /\ arg = "none" /\ answer = "none"
              /\ stack = <<>> /\ trace = <<>> /\ result = "none"
PolyIdle   == points = <<>> /\ buffer = <<>> /\ polygon = [status |-> "none", vertices |-> <<>>]

(* ---- mortonIndex, mortonIndexInverse ---- *)

InitMorton ==
    /\ pc = "call"
    /\ \/ \E s \in 0..31, v, w \in Patterns(PatBits), f, g \in 0..1 :
            /\ op = "mortonIndex"
            /\ x = Window(32, PatBits, v, s, f)
            /\ y = Window(32, PatBits, w, s, g)
            /\ z = {}
       \/ \E s \in 0..63, v \in Patterns(2 * PatBits), f \in 0..1 :
            /\ op = "mortonIndexInverse"
            /\ z = Window(64, 2 * PatBits, v, s, f)
            /\ x = {} /\ y = {}
    /\ h = {} /\ m = 0 /\ r = 0
    /\ ScanIdle /\ RelateIdle /\ PolyIdle

MortonIndex ==
    /\ pc = "call" /\ op = "mortonIndex"
    /\ z' = mortonIndex(x, y)
    /\ pc' = "done"
    /\ UNCHANGED <<op, x, y, h, m, r, scanVars, relateVars, polyVars>>

MortonIndexInverse ==
    /\ pc = "call" /\ op = "mortonIndexInverse"
    /\ LET t == mortonIndexInverse(z) IN x' = t[1] /\ y' = t[2]
    /\ pc' = "done"
    /\ UNCHANGED <<op, z, h, m, r, scanVars, relateVars, polyVars>>

NextMorton == MortonIndex \/ MortonIndexInverse

SpecMorton == InitMorton /\ [][NextMorton]_vars

(* ---- mortonIndex, mortonIndexInverse of the SSE2 build ---- *)

InitSimd ==
    /\ pc = "call"
    /\ \/ \E s \in 0..31, v, w \in Patterns(PatBits), f, g \in 0..1 :
            /\ op = "mortonIndex_SIMD"
            /\ x = Window(32, PatBits, v, s, f)
            /\ y = Window(32, PatBits, w, s, g)
            /\ z = {}
       \/ \E s \in 0..63, v \in Patterns(2 * PatBits), f \in 0..1 :
            /\ op = "mortonIndexInverse_SIMD"
            /\ z = Window(64, 2 * PatBits, v, s, f)
            /\ x = {} /\ y = {}
    /\ h = {} /\ m = 0 /\ r = 0
    /\ ScanIdle /\ RelateIdle /\ PolyIdle

MortonIndex_SIMD ==
    /\ pc = "call" /\ op = "mortonIndex_SIMD"
    /\ z' = mortonIndex_SIMD(x, y)
    /\ pc' = "done"
    /\ UNCHANGED <<op, x, y, h, m, r, scanVars, relateVars, polyVars>>

MortonIndexInverse_SIMD ==
    /\ pc = "call" /\ op = "mortonIndexInverse_SIMD"
    /\ LET t == mortonIndexInverse_SIMD(z) IN x' = t[1] /\ y' = t[2]
    /\ pc' = "done"
    /\ UNCHANGED <<op, z, h, m, r, scanVars, relateVars, polyVars>>

NextSimd == MortonIndex_SIMD \/ MortonIndexInverse_SIMD

SpecSimd == InitSimd /\ [][NextSimd]_vars

(* ---- log2 ---- *)

\* The words of the given width with most significant 1 bit k.
WithMsb(width, k) ==
    {{k} \cup (Window(width, PatBits, v, s, f) \cap (0..(k - 1))) :
        v \in Patterns(PatBits), s \in 0..k, f \in 0..1}

InitLog2 ==
    /\ pc = "call"
    /\ \/ op = "log2_64" /\ x \in {{}} \cup UNION {WithMsb(64, k) : k \in 0..63}
       \/ op = "log2_32" /\ x \in {{}} \cup UNION {WithMsb(32, k) : k \in 0..31}
    /\ y = {} /\ z = {} /\ h = {} /\ m = 0 /\ r = 0
    /\ ScanIdle /\ RelateIdle /\ PolyIdle

Log2_64 ==
    /\ pc = "call" /\ op = "log2_64"
    /\ r' = log2_64(x)
    /\ pc' = "done"
    /\ UNCHANGED <<op, x, y, z, h, m, scanVars, relateVars, polyVars>>

Log2_32 ==
    /\ pc = "call" /\ op = "log2_32"
    /\ r' = log2_32(x)
    /\ pc' = "done"
    /\ UNCHANGED <<op, x, y, z, h, m, scanVars, relateVars, polyVars>>

NextLog2 == Log2_64 \/ Log2_32

SpecLog2 == InitLog2 /\ [][NextLog2]_vars

(* ---- hilbertIndex, hilbertIndexInverse ---- *)

\* Width, in bits, of the window of arbitrary bits placed in the low m bits
\* of each coordinate handed to hilbertIndex, and width, in base-4 digits,
\* of the window placed in each index handed to hilbertIndexInverse.
HilbertDigits == 1

\* Largest order for which every cell of the grid, and every index of the
\* curve, is among the inputs.
ExhaustiveOrder == 6

\* The bits from bit mm upwards of a coordinate, which hilbertIndex ignores.
High(mm, on) == IF on = 1 THEN mm..31 ELSE {}

\* A coordinate for order mm: a window of arbitrary bits within its low mm
\* bits, and either nothing or 1 bits from bit mm upwards.
Coordinate(mm, pat, s, f, on) ==
    (Window(32, HilbertDigits, pat, s, f) \cap (0..(mm - 1))) \cup High(mm, on)

InitHilbert ==
    /\ pc = "call"
    /\ \/ \E mm \in Orders, s \in 0..31 :
            /\ s <= mm
            /\ m = mm
            /\ \/ \E v, w \in Patterns(HilbertDigits), f, g, hx, hy \in 0..1 :
                    /\ op = "hilbertIndex"
                    /\ x = Coordinate(mm, v, s, f, hx)
                    /\ y = Coordinate(mm, w, s, g, hy)
                    /\ h = {}
               \/ \E v \in Patterns(2 * HilbertDigits), d \in 0..3, ones \in 0..1 :
                    /\ op = "hilbertIndexInverse"
                    /\ h = DigitWindow(mm, HilbertDigits, v, s, d, ones)
                    /\ x = {} /\ y = {}
       \/ \E mm \in 0..ExhaustiveOrder :
            /\ m = mm
            /\ \/ \E v, w \in Patterns(mm), hx, hy \in 0..1 :
                    /\ op = "hilbertIndex"
                    /\ x = Word(v) \cup High(mm, hx)
                    /\ y = Word(w) \cup High(mm, hy)
                    /\ h = {}
               \/ \E v \in Patterns(2 * mm) :
                    /\ op = "hilbertIndexInverse"
                    /\ h = Word(v)
                    /\ x = {} /\ y = {}
    /\ z = {} /\ r = 0
    /\ ScanIdle /\ RelateIdle /\ PolyIdle

HilbertIndex ==
    /\ pc = "call" /\ op = "hilbertIndex"
    /\ h' = hilbertIndex(x, y, m)
    /\ pc' = "done"
    /\ UNCHANGED <<op, x, y, z, m, r, scanVars, relateVars, polyVars>>

HilbertIndexInverse ==
    /\ pc = "call" /\ op = "hilbertIndexInverse"
    /\ LET t == hilbertIndexInverse(h, m) IN x' = t[1] /\ y' = t[2]
    /\ pc' = "done"
    /\ UNCHANGED <<op, z, h, m, r, scanVars, relateVars, polyVars>>

NextHilbert == HilbertIndex \/ HilbertIndexInverse

SpecHilbert == InitHilbert /\ [][NextHilbert]_vars

(* ---- mortonToHilbert, and the one-pair-at-a-time loop ---- *)

\* A word of the given width that repeats the nbits bits of pat.
Periodic(width, nbits, pat) == {i \in 0..(width - 1) : (i % nbits) \in Word(pat)}

\* z is any 64-bit word: a window of arbitrary bit pairs in an otherwise
\* constant word, a repeated group of bits, or, for the small orders, every
\* value of the low 2m bits below constant high bits.
InitTransducer ==
    /\ pc = "call"
    /\ op \in {"mortonToHilbert", "mortonToHilbert_1"}
    /\ \/ \E mm \in Orders :
            /\ m = mm
            /\ \/ \E s \in 0..63, v \in Patterns(2 * HilbertDigits), f \in 0..1 :
                    z = Window(64, 2 * HilbertDigits, v, s, f)
               \/ \E v \in Patterns(2 * PatBits) :
                    z = Periodic(64, 2 * PatBits, v)
       \/ \E mm \in 0..ExhaustiveOrder :
            /\ m = mm
            /\ \E v \in Patterns(2 * mm), f \in 0..1 :
                    z = Word(v) \cup (IF f = 1 THEN (2 * mm)..63 ELSE {})
    /\ x = {} /\ y = {} /\ h = {} /\ r = 0
    /\ ScanIdle /\ RelateIdle /\ PolyIdle

MortonToHilbert ==
    /\ pc = "call" /\ op = "mortonToHilbert"
    /\ h' = mortonToHilbert(z, m)
    /\ pc' = "done"
    /\ UNCHANGED <<op, x, y, z, m, r, scanVars, relateVars, polyVars>>

MortonToHilbert_1 ==
    /\ pc = "call" /\ op = "mortonToHilbert_1"
    /\ h' = mortonToHilbert_1(z, m)
    /\ pc' = "done"
    /\ UNCHANGED <<op, x, y, z, m, r, scanVars, relateVars, polyVars>>

NextTransducer == MortonToHilbert \/ MortonToHilbert_1

SpecTransducer == InitTransducer /\ [][NextTransducer]_vars

(* ---- the enumeration of a grid ---- *)

\* The orders of the grids that are enumerated cell by cell.
GridOrders == 1..6

\* The caller walks the 2^m by 2^m grid, row by row, and collects the
\* Hilbert index of every cell.
InitScan ==
    /\ pc = "call" /\ op = "scan"
    /\ m \in GridOrders
    /\ cell = 0 /\ seen = {} /\ repeat = FALSE
    /\ x = {} /\ y = {} /\ z = {} /\ h = {} /\ r = 0
    /\ RelateIdle /\ PolyIdle

ScanCell ==
    /\ pc = "call" /\ op = "scan"
    /\ LET xx == Word(cell \div Pow2(m))
           yy == Word(cell % Pow2(m))
           hh == hilbertIndex(xx, yy, m)
       IN  /\ x' = xx /\ y' = yy /\ h' = hh
           /\ seen' = seen \cup {Val(hh)}
           /\ repeat' = (repeat \/ Val(hh) \in seen)
    /\ cell' = cell + 1
    /\ pc' = IF cell + 1 = Pow2(2 * m) THEN "done" ELSE "call"
    /\ UNCHANGED <<op, z, m, r, relateVars, polyVars>>

NextScan == ScanCell

SpecScan == InitScan /\ [][NextScan]_vars

---------------------------------------------------------------------------
(* Properties of the curve functions.                                      *)

\* C1: mortonIndexInverse is the two-sided inverse of mortonIndex: for all
\* 32-bit x and y, mortonIndexInverse(mortonIndex(x, y)) = (x, y), and for
\* every 64-bit z the pair (x, y) = mortonIndexInverse(z) satisfies
\* mortonIndex(x, y) = z.
MortonRoundTrip ==
    pc = "done" =>
        /\ op = "mortonIndex" => mortonIndexInverse(z) = <<x, y>>
        /\ op = "mortonIndexInverse" => mortonIndex(x, y) = z

\* A z with 1 bits in both halves and at both parities has been separated.
MortonRoundTripWitness ==
    /\ pc = "done" /\ op = "mortonIndexInverse"
    /\ {0, 63} \subseteq z /\ z # 0..63
    /\ 0 \in x /\ 31 \in y

\* C2: for every k in 0..31, bit 2k of mortonIndex(x, y) is bit k of x and
\* bit 2k+1 of mortonIndex(x, y) is bit k of y.
MortonBits ==
    (pc = "done" /\ op = "mortonIndex") =>
        \A k \in 0..31 : /\ (2 * k \in z) <=> (k \in x)
                         /\ (2 * k + 1 \in z) <=> (k \in y)

\* x and y differ at the top and at the bottom bit, and were interleaved.
MortonBitsWitness ==
    /\ pc = "done" /\ op = "mortonIndex"
    /\ 31 \in x /\ 31 \notin y /\ 0 \in y /\ 0 \notin x

\* C3, as stated: interleave(5, 2) = 21 and deinterleave(21) = (5, 2).
MortonExampleAsStated ==
    /\ (pc = "done" /\ op = "mortonIndex" /\ x = Word(5) /\ y = Word(2))
            => z = Word(21)
    /\ (pc = "done" /\ op = "mortonIndexInverse" /\ z = Word(21))
            => (x = Word(5) /\ y = Word(2))

\* C3, amended: mortonIndex(5, 2) = 25 (binary 011001) and
\* mortonIndexInverse(25) = (5, 2); 21 (binary 010101) is the index of
\* (7, 0): mortonIndex(7, 0) = 21 and mortonIndexInverse(21) = (7, 0).
MortonExample ==
    /\ (pc = "done" /\ op = "mortonIndex" /\ x = Word(5) /\ y = Word(2))
            => z = Word(25)
    /\ (pc = "done" /\ op = "mortonIndexInverse" /\ z = Word(25))
            => (x = Word(5) /\ y = Word(2))
    /\ (pc = "done" /\ op = "mortonIndex" /\ x = Word(7) /\ y = Word(0))
            => z = Word(21)
    /\ (pc = "done" /\ op = "mortonIndexInverse" /\ z = Word(21))
            => (x = Word(7) /\ y = Word(0))

\* mortonIndex has run on (5, 2).
MortonExampleWitness ==
    pc = "done" /\ op = "mortonIndex" /\ x = Word(5) /\ y = Word(2)

\* C4: for every order m in 1..6, hilbertIndex restricted to the cells
\* 0 <= x, y < 2^m is a bijection onto 0..4^m - 1: no index is produced
\* twice, every index lies below 4^m, and once all cells have been visited
\* the indexes produced are exactly 0..4^m - 1.
HilbertBijection ==
    op = "scan" =>
        /\ ~repeat
        /\ Cardinality(seen) = cell
        /\ seen \subseteq 0..(Pow2(2 * m) - 1)
        /\ pc = "done" => seen = 0..(Pow2(2 * m) - 1)

\* The 64 by 64 grid has been enumerated to its last cell.
HilbertBijectionWitness ==
    pc = "done" /\ op = "scan" /\ m = 6 /\ cell = 4096

\* C5: for every order m in 0..10 and all x, y below 2^m,
\* hilbertIndexInverse(hilbertIndex(x, y, m), m) = (x, y), and
\* hilbertToMorton(mortonToHilbert(z, m), m) = z for z = mortonIndex(x, y).
HilbertRoundTrip ==
    (/\ pc = "done" /\ op = "hilbertIndex"
     /\ m \in 0..10 /\ x \subseteq 0..(m - 1) /\ y \subseteq 0..(m - 1))
        => /\ hilbertIndexInverse(h, m) = <<x, y>>
           /\ hilbertToMorton(h, m) = mortonIndex(x, y)

\* An order whose last group has 2 bits (2m = 20), with both coordinates
\* non-zero in the first and in the last group.
HilbertRoundTripWitness ==
    /\ pc = "done" /\ op = "hilbertIndex" /\ m = 10
    /\ x \subseteq 0..9 /\ y \subseteq 0..9
    /\ 9 \in x /\ 0 \in y /\ x # y

Increment(a, width) == Add(a, {0}, width)

\* Coordinates a and b differ by exactly 1.
DiffersByOne(a, b) ==
    \/ a # 0..31 /\ Increment(a, 32) = b
    \/ b # 0..31 /\ Increment(b, 32) = a

\* C6: for every order m >= 1 and every h in 0..4^m - 2, the cells of h and
\* of h + 1 differ by exactly 1 in one coordinate and agree in the other.
HilbertLocality ==
    (/\ pc = "done" /\ op = "hilbertIndexInverse"
     /\ m >= 1 /\ h \subseteq 0..(2 * m - 1) /\ h # 0..(2 * m - 1))
        => LET next == hilbertIndexInverse(Increment(h, 64), m)
           IN  \/ x = next[1] /\ DiffersByOne(y, next[2])
               \/ y = next[2] /\ DiffersByOne(x, next[1])

\* At the largest order, an index whose increment carries through ten bits.
HilbertLocalityWitness ==
    /\ pc = "done" /\ op = "hilbertIndexInverse" /\ m = 32
    /\ 0..9 \subseteq h /\ h # 0..63

\* C7: log2, in its 64-bit and its 32-bit overload, returns the index of
\* the most significant 1 bit of x when x > 0, a value in 0..width - 1, and
\* returns 0 when x = 0.
Log2IsMsb ==
    pc = "done" =>
        /\ r \in 0..(IF op = "log2_64" THEN 63 ELSE 31)
        /\ x = {} => r = 0
        /\ x # {} => r = Msb(x)

\* A 64-bit word with its top bit and other bits set went through log2.
Log2IsMsbWitness ==
    pc = "done" /\ op = "log2_64" /\ r = 63 /\ Cardinality(x) > 1 /\ 0 \notin x

\* C8: for every order m in 0..32 and all 32-bit x and y, hilbertIndex uses
\* only the m least significant bits of x and y, its result lies below
\* 4^m, and for m = 0 the result is 0.
HilbertLowBitsOnly ==
    (pc = "done" /\ op = "hilbertIndex") =>
        /\ h = hilbertIndex(x \cap (0..(m - 1)), y \cap (0..(m - 1)), m)
        /\ h \subseteq 0..(2 * m - 1)
        /\ m = 0 => h = {}

\* Coordinates with 1 bits at and above bit m were indexed.
HilbertLowBitsOnlyWitness ==
    /\ pc = "done" /\ op = "hilbertIndex" /\ m \in 1..31
    /\ m \in x /\ 31 \in y /\ h # {}

\* C11: for every order m in 0..32 and every 64-bit z, the table-driven
\* mortonToHilbert, which takes 6 bits per iteration through HILBERT_LUT_3
\* and finishes with a group of 2 or 4 bits when 2m is not a multiple of 6,
\* returns what the loop that takes one bit pair per iteration through
\* HILBERT_LUT_1 returns.
TransducerEquivalence ==
    pc = "done" =>
        /\ op = "mortonToHilbert" => h = mortonToHilbert_1(z, m)
        /\ op = "mortonToHilbert_1" => h = mortonToHilbert(z, m)

\* An order whose last group has 4 bits, after ten whole groups: z has 1
\* bits in the last group and in the first one.
TransducerEquivalenceWitness ==
    /\ pc = "done" /\ op = "mortonToHilbert" /\ m = 32
    /\ z \cap (0..3) # {} /\ 63 \in z /\ z # 0..63
    /\ h \cap (0..3) # {} /\ h \cap (4..63) # {}

\* C12: the SSE2 implementations return what the portable ones return: for
\* all 32-bit x and y the two mortonIndex give the same 64-bit value, and
\* for every 64-bit z the two mortonIndexInverse give the same pair (x, y).
SimdEquivalence ==
    pc = "done" =>
        /\ op = "mortonIndex_SIMD" => z = mortonIndex(x, y)
        /\ op = "mortonIndexInverse_SIMD" => <<x, y>> = mortonIndexInverse(z)

\* The SSE2 mortonIndexInverse has separated a z with 1 bits in both halves
\* and at both parities, and both coordinates have 1 bits in both halves.
SimdEquivalenceWitness ==
    /\ pc = "done" /\ op = "mortonIndexInverse_SIMD"
    /\ {0, 63} \subseteq z /\ z # 0..63
    /\ {0, 31} \subseteq x /\ {0, 31} \subseteq y

---------------------------------------------------------------------------
(* ConvexPolygon::relate: the dispatch on the type of the other region     *)

Relationships == {"DISJOINT", "INTERSECTS", "CONTAINS", "WITHIN"}

\* The concrete regions ConvexPolygon has a relate overload for.
Kinds == {"Box", "Circle", "ConvexPolygon", "Ellipse"}

\* Any other implementation of Region: the polygon has no overload for it,
\* and it can only be handed over as a Region.
Other == "Region subclass"

\* invert flips the perspective of a relationship.
invert(rel) ==
    CASE rel = "CONTAINS" -> "WITHIN"
      [] rel = "WITHIN"   -> "CONTAINS"
      [] OTHER            -> rel

\* In relate(Region const & r), *this is a ConvexPolygon const &: that is
\* the parameter type of the overload of r that r.relate(*this) selects.
TypeOfThis == "ConvexPolygon"

\* A slip: the result of r.relate(*this) is returned as it is.
relateRegionNoInvert(ret) == ret

\* What relate(Region const & r) returns, given what r.relate(*this) did.
relateRegion(ret) == invert(ret)

\* An entered overload: the object it runs on, that object's class, and
\* the type of the overload's parameter.
Frame(this, class, param) == [this |-> this, class |-> class, param |-> param]

Top == stack[Len(stack)]
Pop == SubSeq(stack, 1, Len(stack) - 1)

\* The caller holds a ConvexPolygon and a reference to a region r of some
\* concrete kind, typed either as a Region or, for a kind the polygon has
\* an overload for, as what it is; answer.theirs
\* is the relationship r's overload for ConvexPolygon computes, answer.ours
\* the one the polygon's own overload for r's kind computes.
InitRelate ==
    /\ pc = "call" /\ op = "relate"
    /\ self = "ConvexPolygon"
    /\ \E k \in Kinds \cup {Other}, s \in Kinds \cup {"Region"} :
        /\ s \in {k, "Region"}
        /\ arg = [kind |-> k, static |-> s]
    /\ answer \in [theirs : Relationships, ours : Relationships]
    /\ stack = <<>> /\ trace = <<>> /\ result = "none"
    /\ CurveIdle /\ ScanIdle /\ PolyIdle

\* p.relate(r): the static type of r selects the overload of p.
CallRelate ==
    /\ pc = "call" /\ op = "relate"
    /\ LET f == Frame("self", self, arg.static)
       IN  stack' = <<f>> /\ trace' = <<f>>
    /\ pc' = "running"
    /\ UNCHANGED <<op, self, arg, answer, result, curveVars, scanVars, polyVars>>

\* relate(Region const & r) evaluates r.relate(*this): a virtual call, bound
\* to the class of r and to the static type of *this.
RelateRegionCall ==
    /\ pc = "running" /\ Top.param = "Region"
    /\ LET f == Frame(IF Top.this = "self" THEN "arg" ELSE "self",
                      IF Top.this = "self" THEN arg.kind ELSE self,
                      TypeOfThis)
       IN  stack' = Append(stack, f) /\ trace' = Append(trace, f)
    /\ UNCHANGED <<pc, op, self, arg, answer, result, curveVars, scanVars, polyVars>>

\* An overload for a concrete kind computes the relationship itself.
RelateConcrete ==
    /\ pc = "running" /\ Top.param # "Region"
    /\ result' = IF Top.this = "self" THEN answer.ours ELSE answer.theirs
    /\ stack' = Pop
    /\ pc' = IF Len(stack) = 1 THEN "done" ELSE "returning"
    /\ UNCHANGED <<op, self, arg, answer, trace, curveVars, scanVars, polyVars>>

\* relate(Region const & r) returns invert(r.relate(*this)).
RelateRegionReturn ==
    /\ pc = "returning" /\ Top.param = "Region"
    /\ result' = relateRegion(result)
    /\ stack' = Pop
    /\ pc' = IF Len(stack) = 1 THEN "done" ELSE "returning"
    /\ UNCHANGED <<op, self, arg, answer, trace, curveVars, scanVars, polyVars>>

NextRelate ==
    CallRelate \/ RelateRegionCall \/ RelateConcrete \/ RelateRegionReturn

SpecRelate == InitRelate /\ [][NextRelate]_vars

\* C9: when a ConvexPolygon is related to a region r through the generic
\* overload relate(Region const &), the result is invert(r.relate(P)); the
\* overload of r for ConvexPolygon is entered exactly once and the generic
\* overload is never entered again; inverting the result gives back what r
\* computed.
RelateSymmetry ==
    (op = "relate" /\ arg.static = "Region") =>
        /\ Cardinality({i \in 1..Len(trace) : trace[i].param = "Region"}) <= 1
        /\ pc = "done" =>
            /\ result = invert(answer.theirs)
            /\ invert(result) = answer.theirs
            /\ trace = <<Frame("self", "ConvexPolygon", "Region"),
                         Frame("arg", arg.kind, "ConvexPolygon")>>

\* A Box typed as a Region contains the polygon: the polygon is WITHIN it.
RelateSymmetryWitness ==
    /\ pc = "done" /\ op = "relate"
    /\ arg = [kind |-> "Box", static |-> "Region"]
    /\ answer.theirs = "CONTAINS" /\ result = "WITHIN"

---------------------------------------------------------------------------
(* ConvexPolygon: construction, clone, encode and decode                   *)

\* Longest vector of points handed to convexHull.
MaxPoints == 4

\* Largest vertex count declared by, or carried in, a byte string that was
\* not produced by encode.
MaxCount == 4

TYPE_CODE == 112    \* 'p'

\* A unit vector is modelled by an integer vector of the same direction.
\* The points used lie in the hemisphere z > 0.
ChartPoints == {<<a, b, 1>> : a \in 0..1, b \in 0..2}

\* A polygon object, or the error its construction ended with.
Polygon(vs)  == [status |-> "ok", vertices |-> vs]
Failure(err) == [status |-> err, vertices |-> <<>>]

\* ConvexPolygon(v0, v1, v2): _vertices{v0, v1, v2}, nothing verified.
Triangle(v0, v1, v2) == Polygon(<<v0, v1, v2>>)

\* ConvexPolygon(v0, v1, v2, v3): _vertices{v0, v1, v2, v3}.
Quadrilateral(v0, v1, v2, v3) == Polygon(<<v0, v1, v2, v3>>)

\* ConvexPolygon(): _vertices(), the private constructor decode fills.
EmptyPolygon == Polygon(<<>>)

\* clone(): new ConvexPolygon(*this).
clone(p) == Polygon(p.vertices)

\* The sign of the triple product u . (v x w).
orientation(u, v, w) ==
    LET d == u[1] * (v[2] * w[3] - v[3] * w[2])
             - u[2] * (v[1] * w[3] - v[3] * w[1])
             + u[3] * (v[1] * w[2] - v[2] * w[1])
    IN  IF d > 0 THEN 1 ELSE IF d < 0 THEN -1 ELSE 0

\* w lies on the arc from u to v.
OnArc(u, v, w) ==
    /\ orientation(u, v, w) = 0
    /\ (w[1] - u[1]) * (v[1] - w[1]) + (w[2] - u[2]) * (v[2] - w[2]) >= 0

\* u -> v is an edge of the hull of ps, walked counter-clockwise.
HullEdge(ps, u, v) ==
    /\ u # v
    /\ \A w \in ps \ {u, v} : orientation(u, v, w) = 1 \/ OnArc(u, v, w)

RECURSIVE HullWalk(_, _, _)
HullWalk(ps, first, sofar) ==
    LET nxt == CHOOSE v \in ps : HullEdge(ps, sofar[Len(sofar)], v)
    IN  IF nxt = first THEN sofar ELSE HullWalk(ps, first, Append(sofar, nxt))

\* convexHull(points): the hull of the set of the points given, or a
\* GeometryError when fewer than 3 distinct points are given or they all
\* lie on one great circle.
convexHull(pts) ==
    LET ps == {pts[i] : i \in 1..Len(pts)}
        vs == {u \in ps : \E v \in ps : HullEdge(ps, u, v)}
    IN  IF \/ Cardinality(ps) < 3
           \/ \A u, v, w \in ps : orientation(u, v, w) = 0
        THEN Failure("GeometryError")
        ELSE LET first == CHOOSE u \in vs : \A v \in vs : u[1] < v[1] \/ (u[1] = v[1] /\ u[2] <= v[2])
             IN  Polygon(HullWalk(ps, first, <<first>>))

\* The 4 bytes of a vertex count, least significant first.
CountBytes(n) == <<n % 256, (n \div 256) % 256, 0, 0>>
CountOf(b)    == b[1] + 256 * b[2] + 65536 * b[3] + 16777216 * (b[4] % 128)

\* The 8 bytes of the double with the value of a small natural number,
\* least significant first.
DoubleBytes(d) ==
    CASE d = 0 -> <<0, 0, 0, 0, 0, 0, 0, 0>>
      [] d = 1 -> <<0, 0, 0, 0, 0, 0, \hf0, \h3f>>
      [] d = 2 -> <<0, 0, 0, 0, 0, 0, 0, \h40>>
DoubleOf(b) == CHOOSE d \in 0..2 : DoubleBytes(d) = b

VertexBytes(v) == DoubleBytes(v[1]) \o DoubleBytes(v[2]) \o DoubleBytes(v[3])

RECURSIVE VerticesBytes(_)
VerticesBytes(vs) ==
    IF vs = <<>> THEN <<>> ELSE VertexBytes(Head(vs)) \o VerticesBytes(Tail(vs))

\* encode(): the type code, the vertex count, then 24 bytes per vertex.
encode(p) ==
    <<TYPE_CODE>> \o CountBytes(Len(p.vertices)) \o VerticesBytes(p.vertices)

\* decode(buffer): at least 5 bytes, the type code 'p', and a vertex count
\* that matches the length; then the vertices, verbatim.
decode(b) ==
    IF Len(b) < 5 THEN Failure("DecodeError")
    ELSE IF b[1] # TYPE_CODE THEN Failure("DecodeError")
    ELSE LET count == CountOf(SubSeq(b, 2, 5))
         IN  IF Len(b) # 5 + 24 * count THEN Failure("DecodeError")
             ELSE [EmptyPolygon EXCEPT !.vertices =
                     [k \in 1..count |->
                        LET at == 5 + 24 * (k - 1)
                        IN  <<DoubleOf(SubSeq(b, at + 1, at + 8)),
                              DoubleOf(SubSeq(b, at + 9, at + 16)),
                              DoubleOf(SubSeq(b, at + 17, at + 24))>>]]

Take(s, n) == SubSeq(s, 1, IF n < Len(s) THEN n ELSE Len(s))

\* The vertices carried by the byte strings that encode did not produce.
Carried == <<<<0, 0, 1>>, <<1, 0, 1>>, <<1, 1, 1>>, <<0, 1, 1>>, <<0, 2, 1>>>>

\* Byte strings from elsewhere: a type code, a declared count, some
\* vertices, possibly cut short or with a byte too many.
Foreign ==
    {Take(<<code>> \o CountBytes(c) \o VerticesBytes(Take(Carried, k)) \o <<0>>, 5 + 24 * k + cut) :
        code \in {TYPE_CODE, 98}, c \in 0..MaxCount, k \in 0..MaxCount, cut \in {-5, -4, -1, 0, 1}}

UpTo(n) == UNION {[1..k -> ChartPoints] : k \in 0..n}

InitPolygon ==
    /\ pc = "call"
    /\ \/ op = "convexHull" /\ points \in UpTo(MaxPoints) /\ buffer = <<>>
       \/ op = "triangle" /\ points \in [1..3 -> ChartPoints] /\ buffer = <<>>
       \/ op = "quadrilateral" /\ points \in [1..4 -> ChartPoints] /\ buffer = <<>>
       \/ op = "decode" /\ points = <<>> /\ buffer \in Foreign
    /\ polygon = [status |-> "none", vertices |-> <<>>]
    /\ CurveIdle /\ ScanIdle /\ RelateIdle

ConvexHull ==
    /\ pc = "call" /\ op = "convexHull"
    /\ polygon' = convexHull(points)
    /\ pc' = "done"
    /\ UNCHANGED <<op, points, buffer, curveVars, scanVars, relateVars>>

NewTriangle ==
    /\ pc = "call" /\ op = "triangle"
    /\ polygon' = Triangle(points[1], points[2], points[3])
    /\ pc' = "done"
    /\ UNCHANGED <<op, points, buffer, curveVars, scanVars, relateVars>>

NewQuadrilateral ==
    /\ pc = "call" /\ op = "quadrilateral"
    /\ polygon' = Quadrilateral(points[1], points[2], points[3], points[4])
    /\ pc' = "done"
    /\ UNCHANGED <<op, points, buffer, curveVars, scanVars, relateVars>>

\* decode of a byte string from elsewhere, or of one encode just produced.
Decode ==
    /\ (pc = "call" /\ op = "decode") \/ (pc = "done" /\ op = "encode")
    /\ polygon' = decode(buffer)
    /\ op' = "decode" /\ pc' = "done"
    /\ UNCHANGED <<points, buffer, curveVars, scanVars, relateVars>>

Clone ==
    /\ pc = "done" /\ polygon.status = "ok"
    /\ polygon' = clone(polygon)
    /\ op' = "clone"
    /\ UNCHANGED <<pc, points, buffer, curveVars, scanVars, relateVars>>

Encode ==
    /\ pc = "done" /\ polygon.status = "ok"
    /\ buffer' = encode(polygon)
    /\ op' = "encode"
    /\ UNCHANGED <<pc, points, polygon, curveVars, scanVars, relateVars>>

NextPolygon ==
    ConvexHull \/ NewTriangle \/ NewQuadrilateral \/ Decode \/ Clone \/ Encode

SpecPolygon == InitPolygon /\ [][NextPolygon]_vars

\* C10: every ConvexPolygon a caller can observe has 3 or more vertices,
\* whether it comes from convexHull, from the triangle or quadrilateral
\* constructor, from clone or from decode; decode fails or returns such a
\* polygon.
PolygonHasThreeVertices ==
    polygon.status = "ok" => Len(polygon.vertices) >= 3

=============================================================================
